---- MODULE Spec2Model ----
(***************************************************************************)
(* A model of the two scripts of the repository:                           *)
(*   src/ttt.py  find_intersection: the multi-guess root search with the   *)
(*               positivity/convergence filter, rounding and dedup;        *)
(*   src/air.py  calculate_flight_probabilities and the dashboard script   *)
(*               that calls it on every rerun of a session.                *)
(*                                                                         *)
(* Real numbers are fixed-point integers.  A root x is held in "raw" units *)
(* of 1/Micro of 1e-6, so np.round(x, 6) is a real rounding step and not   *)
(* the identity.  Rates are exact fractions <<num, den>> in lowest terms.  *)
(***************************************************************************)
EXTENDS Integers, Sequences, FiniteSets, TLC

VARIABLES
    \* ---- src/ttt.py, one call of find_intersection ----
    base_exp,       \* argument base_exp
    base_log,       \* argument base_log
    initial_guess,  \* argument initial_guess: [kind, vals]
    pc,             \* position of the call: "try", "done" (returned), "raised"
    i,              \* index of the next guess of the for loop
    roots,          \* the local list `roots` (raw units)
    solved,         \* what fsolve answered for each guess it was run on
    result,         \* the returned array (raw units)
    \* ---- src/air.py, calculate_flight_probabilities called directly ----
    args,           \* <<total, delayed, cancelled, accident>>
    probabilities,  \* the returned dict, or NotCalled
    warned,         \* st.warning was emitted by the call
    called,         \* the call has returned
    \* ---- src/air.py, the dashboard session ----
    inputs,         \* the four number_input widgets
    screen,         \* what the last run rendered
    session_state,  \* st.session_state['current_time'], or Absent
    now,            \* the wall clock, in ticks
    run,            \* 0 before the first run, 1 after it, 2 after any later run
    first_now       \* history: the clock reading of the first run

vars == <<base_exp, base_log, initial_guess, pc, i, roots, solved, result,
          args, probabilities, warned, called,
          inputs, screen, session_state, now, run, first_now>>

finderVars == <<base_exp, base_log, initial_guess, pc, i, roots, solved, result>>
ratesVars  == <<args, probabilities, warned, called>>
dashVars   == <<inputs, screen, session_state, now, run, first_now>>

(***************************************************************************)
(* Bounds of the model.                                                    *)
(***************************************************************************)
\* longest sequence of guesses passed to find_intersection
MaxLen == 3
\* raw units per 1e-6: the resolution at which solver output is represented
Micro == 4
\* largest count typed into a dashboard widget or passed to the calculator
MaxCount == 3
\* last tick of the wall clock
MaxTime == 3
\* clock ticks per second: the resolution strftime("%S") truncates away
TicksPerSecond == 2

(***************************************************************************)
(* Generic helpers.                                                        *)
(***************************************************************************)
Range(s) == {s[k] : k \in 1..Len(s)}

Abs(x) == IF x < 0 THEN -x ELSE x

Min(S) == CHOOSE x \in S : \A y \in S : x <= y

RECURSIVE Pow(_, _)
Pow(b, e) == IF e <= 0 THEN 1 ELSE b * Pow(b, e - 1)

RECURSIVE GCD(_, _)
GCD(a, b) == IF b = 0 THEN a ELSE GCD(b, a % b)

SeqsUpTo(S, n) == UNION {[1..k -> S] : k \in 0..n}

(***************************************************************************)
(* src/ttt.py: find_intersection.                                          *)
(***************************************************************************)
\* np.round(..., decimals=6)
Decimals == 6
\* raw units in 1.0
One == Micro * Pow(10, Decimals)

\* starting points, in tenths: 0.5, 1.0, 2.0 (the guesses of example 1)
Guesses == {5, 10, 20}

\* pairs <<base_exp, base_log>>: example 1 (2, 2) and example 5 (5, 5)
Bases == {<<2, 2>>, <<5, 5>>}

\* initial_guess by how isinstance sorts it: "scalar" is (int, float), "list"
\* and "ndarray" are the sequence branch, "tuple" is any other sequence
InitialGuesses ==
    {[kind |-> "scalar", vals |-> <<g>>] : g \in Guesses}
    \cup {[kind |-> k, vals |-> s] :
            k \in {"list", "ndarray", "tuple"}, s \in SeqsUpTo(Guesses, MaxLen)}

\* least e with b^e >= n: an upper bound of log_b(x) for every x <= n
RECURSIVE CeilLog(_, _, _)
CeilLog(b, n, e) == IF Pow(b, e) >= n THEN e ELSE CeilLog(b, n, e + 1)

\* equation_to_solve(x) for integer bases above 1 and x in raw units: the
\* sentinel np.inf for x <= 0, otherwise a lower bound of
\* base_exp**x - log(x)/log(base_log) over the unit interval [k, k+1] holding
\* x (base_exp**x >= base_exp**k and log_b(x) <= CeilLog(b, k+1))
equation_to_solve(a, b, x) ==
    IF x <= 0
    THEN [inf |-> TRUE, low |-> 0]
    ELSE LET k == x \div One
         IN  [inf |-> FALSE, low |-> Pow(a, k) - CeilLog(b, k + 1, 0)]

\* roots the solver may hand back (raw units): a negative one, zero, positive
\* ones around the rounding midpoints of the first two multiples of 1e-6, and
\* the values 2.0 and 4.0
FsolveRoots ==
    {-Micro, 0, Micro \div 2, Micro - 1, Micro + (Micro \div 2),
     2 * One, 4 * One}

\* fsolve's ier: 1 is "solution found", 5 is "not making good progress"
IerCodes == {1, 5}

Unsolved == [kind |-> "unsolved", root |-> 0, ier |-> 0]
Raised   == [kind |-> "raise",    root |-> 0, ier |-> 0]

\* every outcome of one fsolve run: an estimate with its ier, or an exception
FsolveOutcomes ==
    {[kind |-> "ok", root |-> r, ier |-> c] : r \in FsolveRoots, c \in IerCodes}
    \cup {Raised}

\* fsolve(equation_to_solve, guess): a library call whose outcome depends on
\* the guess alone, so a guess solved before answers as it did then
fsolve(guess) ==
    IF solved[guess] # Unsolved THEN {solved[guess]} ELSE FsolveOutcomes

\* np_round with the rounding left out: the array goes to np.unique as it is
NoRound(x) == x

\* np.round(x, decimals=6) of one value: to the nearest multiple of 1e-6,
\* halves to the even multiple
np_round(x) ==
    LET q == x \div Micro
        r == x % Micro
    IN  IF 2 * r < Micro THEN q * Micro
        ELSE IF 2 * r > Micro THEN (q + 1) * Micro
        ELSE IF q % 2 = 0 THEN q * Micro ELSE (q + 1) * Micro

RECURSIVE SortedSeq(_)
SortedSeq(S) ==
    IF S = {} THEN <<>> ELSE LET m == Min(S) IN <<m>> \o SortedSeq(S \ {m})

\* np_unique without the sort: the distinct values in order of first occurrence
RECURSIVE FirstOccurrences(_)
FirstOccurrences(a) ==
    IF a = <<>> THEN <<>>
    ELSE LET init == FirstOccurrences(SubSeq(a, 1, Len(a) - 1))
         IN  IF a[Len(a)] \in Range(init) THEN init ELSE Append(init, a[Len(a)])

\* np.unique(a): the sorted distinct values of a
np_unique(a) == SortedSeq(Range(a))

\* the body of the for loop after fsolve answered: lines 47-48
Retain(rs, o) == IF o.ier = 1 /\ o.root > 0 THEN Append(rs, o.root) ELSE rs

\* lines 49-51: np.unique(np.round(np.array(roots), decimals=6))
RoundUnique(rs) == np_unique([k \in 1..Len(rs) |-> np_round(rs[k])])

\* OnException returning what the loop had retained so far
LeakRoots(rs) == rs

\* both except clauses: print and return np.array([])
OnException(rs) == <<>>

IsSeqKind(g) == g.kind \in {"list", "ndarray"}

\* isinstance(initial_guess, (int, float)): one fsolve run whose output array
\* is returned as it is (lines 38-40, 60), or an exception caught (53-58)
SolveScalar ==
    /\ pc = "try"
    /\ initial_guess.kind = "scalar"
    /\ \E o \in fsolve(initial_guess.vals[1]) :
        /\ solved' = [solved EXCEPT ![initial_guess.vals[1]] = o]
        /\ IF o.kind = "raise"
           THEN roots' = roots /\ result' = OnException(roots)
           ELSE roots' = <<o.root>> /\ result' = <<o.root>>
    /\ pc' = "done"
    /\ UNCHANGED <<base_exp, base_log, initial_guess, i>>
    /\ UNCHANGED <<ratesVars, dashVars>>

\* one iteration of `for guess in initial_guess` (lines 44-48), or an
\* exception raised by it and caught (53-58)
SolveGuess ==
    /\ pc = "try"
    /\ IsSeqKind(initial_guess)
    /\ i <= Len(initial_guess.vals)
    /\ \E o \in fsolve(initial_guess.vals[i]) :
        /\ solved' = [solved EXCEPT ![initial_guess.vals[i]] = o]
        /\ IF o.kind = "raise"
           THEN /\ result' = OnException(roots)
                /\ pc' = "done"
                /\ UNCHANGED <<roots, i>>
           ELSE /\ roots' = Retain(roots, o)
                /\ i' = i + 1
                /\ UNCHANGED <<result, pc>>
    /\ UNCHANGED <<base_exp, base_log, initial_guess>>
    /\ UNCHANGED <<ratesVars, dashVars>>

\* the loop is over: round, dedup and return (lines 49-51, 60)
ReturnRoots ==
    /\ pc = "try"
    /\ IsSeqKind(initial_guess)
    /\ i > Len(initial_guess.vals)
    /\ result' = RoundUnique(roots)
    /\ pc' = "done"
    /\ UNCHANGED <<base_exp, base_log, initial_guess, i, roots, solved>>
    /\ UNCHANGED <<ratesVars, dashVars>>

\* neither isinstance test holds: `roots` is never bound and `return roots`
\* (line 60, outside the try) raises UnboundLocalError to the caller
ReturnUnbound ==
    /\ pc = "try"
    /\ ~ IsSeqKind(initial_guess)
    /\ initial_guess.kind # "scalar"
    /\ pc' = "raised"
    /\ UNCHANGED <<base_exp, base_log, initial_guess, i, roots, solved, result>>
    /\ UNCHANGED <<ratesVars, dashVars>>

(***************************************************************************)
(* src/air.py: calculate_flight_probabilities.                             *)
(***************************************************************************)
\* the float n / d for d > 0, as a fraction in lowest terms
Frac(n, d) == LET g == GCD(Abs(n), d) IN <<n \div g, d \div g>>

\* the literal 0.0
Zero == <<0, 1>>

\* calculate_flight_probabilities with cancellation_rate computed from the
\* delayed count
SwappedRates(total_flights, delayed_flights, cancelled_flights, accident_flights) ==
    IF total_flights <= 0
    THEN [delay_rate |-> Zero, cancellation_rate |-> Zero,
          accident_rate |-> Zero, warning |-> TRUE]
    ELSE [delay_rate        |-> Frac(delayed_flights, total_flights),
          cancellation_rate |-> Frac(delayed_flights, total_flights),
          accident_rate     |-> Frac(accident_flights, total_flights),
          warning           |-> FALSE]

\* the returned dict, and whether st.warning was called on the way
calculate_flight_probabilities(total_flights, delayed_flights, cancelled_flights, accident_flights) ==
    IF total_flights <= 0
    THEN [delay_rate |-> Zero, cancellation_rate |-> Zero,
          accident_rate |-> Zero, warning |-> TRUE]
    ELSE [delay_rate        |-> Frac(delayed_flights, total_flights),
          cancellation_rate |-> Frac(cancelled_flights, total_flights),
          accident_rate     |-> Frac(accident_flights, total_flights),
          warning           |-> FALSE]

NotCalled ==
    [delay_rate |-> Zero, cancellation_rate |-> Zero, accident_rate |-> Zero,
     warning |-> FALSE]

\* arguments of a direct call: the function itself accepts any integers
Counts == (-1)..MaxCount

\* one call of the function on the arguments
Calculate ==
    /\ ~ called
    /\ called' = TRUE
    /\ LET p == calculate_flight_probabilities(args[1], args[2], args[3], args[4])
       IN  /\ probabilities' = p
           /\ warned' = p.warning
    /\ UNCHANGED args
    /\ UNCHANGED <<finderVars, dashVars>>

(***************************************************************************)
(* src/air.py: the dashboard script, run top to bottom on every rerun.     *)
(***************************************************************************)
DefaultTotal == 10000
DefaultDelayed == 1500
DefaultCancelled == 200
DefaultAccident == 1

Defaults ==
    [total |-> DefaultTotal, delayed |-> DefaultDelayed,
     cancelled |-> DefaultCancelled, accident |-> DefaultAccident]

Widgets == {"total", "delayed", "cancelled", "accident"}

\* number_input(min_value=0, step=1): what a widget can be set to
WidgetValues(w) == (0..MaxCount) \cup {Defaults[w]}

\* n / d rounded to the nearest integer, halves to even
RoundDiv(n, d) ==
    LET q == n \div d
        r == n % d
    IN  IF 2 * r < d THEN q
        ELSE IF 2 * r > d THEN q + 1
        ELSE IF q % 2 = 0 THEN q ELSE q + 1

\* f"{rate * factor:.<digits>f}": the digits printed, as an integer count of
\* 10^-digits
Fixed(rate, factor, digits) == RoundDiv(rate[1] * factor * Pow(10, digits), rate[2])

\* the st.table of lines 106-118: a decimal and a percent column
Table(p) ==
    [decimal |-> <<Fixed(p.delay_rate, 1, 4), Fixed(p.cancellation_rate, 1, 4),
                   Fixed(p.accident_rate, 1, 7)>>,
     percent |-> <<Fixed(p.delay_rate, 100, 2), Fixed(p.cancellation_rate, 100, 2),
                   Fixed(p.accident_rate, 100, 5)>>]

\* ExceedsTotal without the test of the accident count
ExceedsTotalNoAccident(inp) ==
    \/ inp.delayed > inp.total
    \/ inp.cancelled > inp.total

\* the validation of lines 87-89
ExceedsTotal(inp) ==
    \/ inp.delayed > inp.total
    \/ inp.cancelled > inp.total
    \/ inp.accident > inp.total

\* datetime.now().strftime("%Y-%m-%d %H:%M:%S KST"): the clock, to the second
strftime(t) == t \div TicksPerSecond

\* StoreTime without the `not in st.session_state` test
StoreTimeAlways(ss, t) == <<strftime(t)>>

\* lines 134-136: current_time is stored only when the key is absent
StoreTime(ss, t) == IF ss = <<>> THEN <<strftime(t)>> ELSE ss

Blank ==
    [error |-> FALSE, called |-> FALSE, warning |-> FALSE, shown |-> FALSE,
     table |-> Table(NotCalled), sidebar |-> <<>>]

\* what one run of the script renders from the widgets and the session
Render(inp, ss) ==
    IF ExceedsTotal(inp)
    THEN [Blank EXCEPT !.error = TRUE, !.sidebar = ss]
    ELSE LET p == calculate_flight_probabilities(inp.total, inp.delayed,
                                                 inp.cancelled, inp.accident)
         IN  [error   |-> FALSE,
              called  |-> TRUE,
              warning |-> p.warning,
              shown   |-> inp.total > 0,
              table   |-> IF inp.total > 0 THEN Table(p) ELSE Table(NotCalled),
              sidebar |-> ss]

\* the script, lines 36-136, on the widget values inp
Script(inp) ==
    /\ inputs' = inp
    /\ screen' = Render(inp, session_state)
    /\ session_state' = StoreTime(session_state, now)
    /\ first_now' = IF run = 0 THEN now ELSE first_now
    /\ run' = IF run = 0 THEN 1 ELSE 2
    /\ UNCHANGED now
    /\ UNCHANGED <<finderVars, ratesVars>>

\* the page is opened: the first run, on the widgets' default values
FirstRun ==
    /\ run = 0
    /\ Script(Defaults)

\* the user sets one widget (or asks for a rerun): the script runs again
Rerun ==
    /\ run > 0
    /\ \E w \in Widgets : \E v \in WidgetValues(w) :
           Script([inputs EXCEPT ![w] = v])

\* time passes between runs
Tick ==
    /\ now < MaxTime
    /\ now' = now + 1
    /\ UNCHANGED <<inputs, screen, session_state, run, first_now>>
    /\ UNCHANGED <<finderVars, ratesVars>>

(***************************************************************************)
(* Specifications.                                                         *)
(***************************************************************************)
NextFinder == SolveScalar \/ SolveGuess \/ ReturnRoots \/ ReturnUnbound

NextRates == Calculate

NextDash == FirstRun \/ Rerun \/ Tick

\* find_intersection is called (the other scripts are not running)
InitFinder ==
    /\ \E ab \in Bases : base_exp = ab[1] /\ base_log = ab[2]
    /\ initial_guess \in InitialGuesses
    /\ pc = "try"
    /\ i = 1
    /\ roots = <<>>
    /\ solved = [g \in Guesses |-> Unsolved]
    /\ result = <<>>
    /\ args = <<0, 0, 0, 0>> /\ probabilities = NotCalled /\ warned = FALSE
    /\ called = FALSE
    /\ inputs = Defaults /\ screen = Blank /\ session_state = <<>>
    /\ now = 0 /\ run = 0 /\ first_now = 0

\* calculate_flight_probabilities is about to be called on some arguments
InitRates ==
    /\ args \in Counts \X Counts \X Counts \X Counts
    /\ probabilities = NotCalled
    /\ warned = FALSE
    /\ called = FALSE
    /\ base_exp = 2 /\ base_log = 2
    /\ initial_guess = [kind |-> "list", vals |-> <<>>]
    /\ pc = "done" /\ i = 1 /\ roots = <<>> /\ result = <<>>
    /\ solved = [g \in Guesses |-> Unsolved]
    /\ inputs = Defaults /\ screen = Blank /\ session_state = <<>>
    /\ now = 0 /\ run = 0 /\ first_now = 0

\* a browser session opens the dashboard: nothing has run yet
InitDash ==
    /\ inputs = Defaults
    /\ screen = Blank
    /\ session_state = <<>>
    /\ now = 0
    /\ run = 0
    /\ first_now = 0
    /\ base_exp = 2 /\ base_log = 2
    /\ initial_guess = [kind |-> "list", vals |-> <<>>]
    /\ pc = "done" /\ i = 1 /\ roots = <<>> /\ result = <<>>
    /\ solved = [g \in Guesses |-> Unsolved]
    /\ args = <<0, 0, 0, 0>> /\ probabilities = NotCalled /\ warned = FALSE
    /\ called = FALSE

\* calls of find_intersection
SpecFinder == InitFinder /\ [][NextFinder]_vars

\* calls of calculate_flight_probabilities
SpecRates == InitRates /\ [][NextRates]_vars

\* one dashboard session
SpecDash == InitDash /\ [][NextDash]_vars

(***************************************************************************)
(* Properties of find_intersection (SpecFinder).                           *)
(***************************************************************************)
Returned == pc = "done"

SomeGuessRaised == \E g \in Range(initial_guess.vals) : solved[g] = Raised

\* C1: every value of a returned root set is strictly greater than 0, for a
\* scalar guess as for a sequence, whatever the solver reported.
C1_ReturnedRootsPositive ==
    Returned => \A k \in 1..Len(result) : result[k] > 0

\* C2: a guess whose solve did not converge contributes no value: every
\* returned value is the (rounded) root of a converged guess, and a call with
\* one scalar guess that did not converge returns the empty set.
C2_NonConvergedDropped ==
    Returned =>
        /\ \A k \in 1..Len(result) :
              \E g \in Range(initial_guess.vals) :
                  /\ solved[g].kind = "ok" /\ solved[g].ier = 1
                  /\ result[k] \in {solved[g].root, np_round(solved[g].root)}
        /\ (initial_guess.kind = "scalar"
              /\ solved[initial_guess.vals[1]].ier # 1) => result = <<>>

\* C3: no two values of a returned root set are within 1e-6 of each other:
\* any two of them are more than one unit (Micro raw units) apart.
C3_NoTwoWithinOneMicro ==
    Returned =>
        \A j, k \in 1..Len(result) :
            j # k => Abs(result[j] - result[k]) > Micro

\* C3 (amended): any two values of a returned root set are at least 1e-6
\* apart: they are distinct multiples of one unit (Micro raw units), and
\* exactly one unit apart is possible.
C3_AtLeastOneMicroApart ==
    Returned =>
        \A j, k \in 1..Len(result) :
            j # k => Abs(result[j] - result[k]) >= Micro

\* C3 witness: two raw roots less than a unit apart were returned as two
\* values exactly one unit apart.
C3_Witness ==
    /\ Returned /\ IsSeqKind(initial_guess)
    /\ \E j, k \in 1..Len(roots) : Abs(roots[j] - roots[k]) < Micro /\ j # k
    /\ \E j, k \in 1..Len(result) : result[k] - result[j] = Micro

\* C4: find_intersection never ends by propagating an exception, whatever
\* the form of initial_guess and whatever the solver did.
C4_NeverPropagates == pc # "raised"

\* C5: when solving a guess of a sequence raised, the call returns the empty
\* result, whatever was retained from the guesses before it.
C5_ExceptionGivesEmpty ==
    (Returned /\ IsSeqKind(initial_guess) /\ SomeGuessRaised) => result = <<>>

\* C5 witness: the exception came after a root had been retained.
C5_Witness ==
    /\ Returned /\ IsSeqKind(initial_guess) /\ SomeGuessRaised
    /\ i > 1 /\ roots # <<>> /\ result = <<>>

\* 1e-4, in raw units
Tol == One \div 10000

\* equation_to_solve can be 0 at x: x is in the domain and the lower bound of
\* the residual over x's unit interval is not above 0
MayVanish(a, b, x) ==
    LET e == equation_to_solve(a, b, x) IN (~ e.inf) /\ e.low <= 0

\* fsolve raised nothing and reported convergence only at points where
\* equation_to_solve can vanish
SolverSound ==
    \A g \in Range(initial_guess.vals) :
        /\ solved[g].kind = "ok"
        /\ solved[g].ier = 1 => MayVanish(base_exp, base_log, solved[g].root)

\* C7: find_intersection(2, 2, [0.5, 1.0, 2.0]) returns a value within 1e-4
\* of 2.0 and a value within 1e-4 of 4.0, each an x where 2^x = log_2(x)
\* (stated for the runs in which the solver is sound).
C7_Example1FindsTwoAndFour ==
    (/\ Returned
     /\ base_exp = 2 /\ base_log = 2
     /\ initial_guess = [kind |-> "list", vals |-> <<5, 10, 20>>]
     /\ SolverSound)
    => /\ \E k \in 1..Len(result) :
            Abs(result[k] - 2 * One) <= Tol /\ MayVanish(2, 2, result[k])
       /\ \E k \in 1..Len(result) :
            Abs(result[k] - 4 * One) <= Tol /\ MayVanish(2, 2, result[k])

\* the call on the guesses gs taken in this order, with the solver answering
\* as it did (a guess it was never run on is skipped: the call had raised)
RECURSIVE FindFrom(_, _, _)
FindFrom(gs, k, rs) ==
    IF k > Len(gs) THEN RoundUnique(rs)
    ELSE LET o == solved[gs[k]]
         IN  IF o = Raised THEN OnException(rs)
             ELSE IF o = Unsolved THEN FindFrom(gs, k + 1, rs)
             ELSE FindFrom(gs, k + 1, Retain(rs, o))

\* C8: for a sequence of guesses the returned root set does not depend on the
\* order of the guesses: every permutation of them yields the sequence that
\* was returned, and that sequence is strictly ascending.
C8_OrderIndependent ==
    (Returned /\ IsSeqKind(initial_guess)) =>
        LET gs == initial_guess.vals
        IN  /\ \A p \in Permutations(1..Len(gs)) :
                  FindFrom([k \in 1..Len(gs) |-> gs[p[k]]], 1, <<>>) = result
            /\ \A k \in 1..(Len(result) - 1) : result[k] < result[k + 1]

\* C8 witness: two roots were retained in descending order and both returned.
C8_Witness ==
    /\ Returned /\ IsSeqKind(initial_guess)
    /\ Len(roots) >= 2 /\ roots[1] > roots[2]
    /\ Len(result) >= 2

(***************************************************************************)
(* Properties of calculate_flight_probabilities (SpecRates).               *)
(***************************************************************************)
\* the fraction r is count / total exactly
IsQuotient(r, count, total) == r[2] > 0 /\ r[1] * total = count * r[2]

\* C6: for total > 0 the three rates are delayed/total, cancelled/total and
\* accidents/total exactly (rate * total = count) and nothing is warned; for
\* total <= 0 all three rates are 0.0 whatever the counts and a warning is
\* emitted; no warning exists before the call.
C6_RatesAreQuotients ==
    /\ ~ called => ~ warned
    /\ called =>
         IF args[1] > 0
         THEN /\ IsQuotient(probabilities.delay_rate, args[2], args[1])
              /\ IsQuotient(probabilities.cancellation_rate, args[3], args[1])
              /\ IsQuotient(probabilities.accident_rate, args[4], args[1])
              /\ ~ warned
         ELSE /\ probabilities.delay_rate = <<0, 1>>
              /\ probabilities.cancellation_rate = <<0, 1>>
              /\ probabilities.accident_rate = <<0, 1>>
              /\ warned

\* C6 witness: a call whose three rates are different proper fractions.
C6_Witness ==
    /\ called /\ args[1] = 3 /\ args[2] = 2 /\ args[3] = 1 /\ args[4] = 0
    /\ probabilities.delay_rate = <<2, 3>>
    /\ probabilities.cancellation_rate = <<1, 3>>

(***************************************************************************)
(* Properties of the dashboard (SpecDash).                                 *)
(***************************************************************************)
\* C9: on every run the table is rendered only when total > 0 and no count
\* exceeds total, every displayed rate then lies in [0, 1] (its percentage in
\* [0, 100]); when a count exceeds total an error is shown, no table is
\* rendered and calculate_flight_probabilities is not called on that run.
C9_TableOnlyForValidInputs ==
    run > 0 =>
        /\ screen.shown =>
              /\ inputs.total > 0
              /\ inputs.delayed <= inputs.total
              /\ inputs.cancelled <= inputs.total
              /\ inputs.accident <= inputs.total
              /\ \A k \in 1..2 :
                    /\ screen.table.decimal[k] \in 0..Pow(10, 4)
                    /\ screen.table.percent[k] \in 0..(100 * Pow(10, 2))
              /\ screen.table.decimal[3] \in 0..Pow(10, 7)
              /\ screen.table.percent[3] \in 0..(100 * Pow(10, 5))
        /\ (\/ inputs.delayed > inputs.total
            \/ inputs.cancelled > inputs.total
            \/ inputs.accident > inputs.total)
           => (screen.error /\ ~ screen.called /\ ~ screen.shown)

\* C9 witness: a rerun rendered a table with a delay rate strictly inside
\* (0, 1) after the user lowered the total.
C9_Witness ==
    /\ run = 2 /\ screen.shown /\ inputs.total <= MaxCount
    /\ screen.table.decimal[1] > 0 /\ screen.table.decimal[1] < Pow(10, 4)

\* C10: current_time is absent before the first run, holds the time of the
\* first run from the end of that run on and never changes; the sidebar of
\* the first run shows the placeholder, the sidebar of every later run shows
\* the time of the first run.
C10_TimeStoredOnce ==
    /\ run = 0 => session_state = <<>>
    /\ run > 0 => session_state = <<strftime(first_now)>>
    /\ run = 1 => screen.sidebar = <<>>
    /\ run = 2 => screen.sidebar = <<strftime(first_now)>>

\* C10 witness: a later run, in another second than the first run, shows the
\* first run's time.
C10_Witness ==
    /\ run = 2
    /\ strftime(now) # strftime(first_now)
    /\ screen.sidebar = <<strftime(first_now)>>
    /\ session_state = <<strftime(first_now)>>

====
